---------------------------- MODULE Spec2Model ----------------------------
(***************************************************************************)
(* Patrol-trajectory simplification and zone-dwell timeline of the         *)
(* HamsterPi dashboard (renderSpatial and its helpers in the web app).     *)
(*                                                                         *)
(* Numbers.  Coordinates are whole pixels.  A distance is kept as its      *)
(* square (an integer); a threshold is kept as its square scaled by SQ     *)
(* (10^6), so that 6.5, 3.575, 12.025 ... are exact.  step_px and          *)
(* speed_px_s are kept in thousandths, which is what toFixed(3) leaves.    *)
(* A timestamp is the millisecond value of its ISO string when it parses;  *)
(* BadTs is a non-empty string Date.parse rejects, EmptyTs is "".          *)
(* JavaScript's null is Null.                                              *)
(***************************************************************************)
EXTENDS Integers, Sequences, FiniteSets, TLC

VARIABLES
    pc,                   \* position inside renderSpatial
    rawTrajectory,        \* spatial.trajectory as received
    timeseries,           \* data.timeseries as received
    plane,                \* <<spatialPlaneWidth, spatialPlaneHeight>>
    trajectoryPoints,     \* validated points
    points,               \* argument of the running simplifyTrajectoryForPatrol
    scan,                 \* locals of simplifyTrajectoryForPatrol
    i,                    \* loop index of the scan (0-based, as in the source)
    simplifiedTrajectory,
    targetSamplePoints,
    sampledTrajectory,
    trajectorySegments,
    sampledTimeline,
    zoneTimeline,
    dwellMinutesByIndex,
    segStart,             \* zone dwell loop: start of the next run (0-based)
    runs,                 \* zone dwell loop: <<segStart, segEnd, segZone, dwellMin>> per iteration
    invocations           \* calls of renderSpatial so far, the running one included

vars == <<pc, rawTrajectory, timeseries, plane, trajectoryPoints, points, scan, i,
          simplifiedTrajectory, targetSamplePoints, sampledTrajectory,
          trajectorySegments, sampledTimeline, zoneTimeline,
          dwellMinutesByIndex, segStart, runs, invocations>>

-----------------------------------------------------------------------------
(* Values *)

Null == -1
BadTs == -2
EmptyTs == -3
NaN == -1000

SQ == 1000000

Max(a, b) == IF a >= b THEN a ELSE b
Min(a, b) == IF a <= b THEN a ELSE b

\* floor(x * num / den) without leaving 32 bits
MulDiv(x, num, den) == (x \div den) * num + ((x % den) * num) \div den

CeilDiv(a, b) == (a + b - 1) \div b

isFinite(v) == v # NaN /\ v # Null

timestampMs(ts) == IF ts >= 0 THEN ts ELSE Null

\* String(ts || ""): every unparseable non-empty string is the one BadTs here
tsString(ts) == ts

DistSq(x1, y1, x2, y2) == (x1 - x2) * (x1 - x2) + (y1 - y2) * (y1 - y2)

RECURSIVE ISqrtFrom(_, _)
ISqrtFrom(n, a) == IF (a + 1) * (a + 1) > n THEN a ELSE ISqrtFrom(n, a + 1)

ISqrt(n) == ISqrtFrom(n, 0)

\* Number(Math.hypot(dx, dy).toFixed(3)) in thousandths, from the squared length:
\* with a = floor(sqrt(d2)) and r = d2 - a*a, the thousandths b are the largest
\* with 2000ab + b*b <= 10^6 r, then rounded to nearest.
FracBelow(a, r, b) == 2000 * a * b + b * b <= SQ * r

FracDigit(a, r, base, unit) ==
    CHOOSE k \in 0..9 :
        /\ FracBelow(a, r, base + k * unit)
        /\ (k = 9 \/ ~FracBelow(a, r, base + (k + 1) * unit))

\* HypotMilli that cuts the digits after the third instead of rounding
HypotMilli_truncated(d2) ==
    LET a == ISqrt(d2)
        r == d2 - a * a
        h == FracDigit(a, r, 0, 100) * 100
        t == h + FracDigit(a, r, h, 10) * 10
    IN  1000 * a + t + FracDigit(a, r, t, 1)

HypotMilli(d2) ==
    LET a == ISqrt(d2)
        r == d2 - a * a
        h == FracDigit(a, r, 0, 100) * 100
        t == h + FracDigit(a, r, h, 10) * 10
        b == t + FracDigit(a, r, t, 1)
        up == 2000 * a * b + b * b + 1000 * a + b < SQ * r
    IN  1000 * a + b + (IF up THEN 1 ELSE 0)

\* Number((step / (dtMs / 1000)).toFixed(3)) in thousandths.  The source divides
\* the unrounded step; the rounded one differs by less than 0.0005 * 1000 / dtMs.
SpeedMilli(stepMilli, dtMs) ==
    MulDiv(stepMilli, 1000, dtMs) +
        (IF 2 * (((stepMilli % dtMs) * 1000) % dtMs) >= dtMs THEN 1 ELSE 0)

-----------------------------------------------------------------------------
(* simplifyTrajectoryForPatrol: thresholds (squares, scaled by SQ) *)

minMovingGapMs == 6500
minStationaryGapMs == 90000
minDwellConfirmMs == 12000

\* Number(v) || 1: NaN, null and 0 give 1
numberOrOne(v) == IF ~isFinite(v) \/ v = 0 THEN 1 ELSE v

\* clampW that lets every bound through
clampW_unclamped(frameWidth) == frameWidth

clampW(frameWidth) == Max(1, numberOrOne(frameWidth))
clampH(frameHeight) == Max(1, numberOrOne(frameHeight))

diagSq(w, h) == w * w + h * h

\* (max(6.5, diag * 0.006))^2
stationaryRadiusSq(w, h) == Max(42250000, 36 * diagSq(w, h))

\* (stationaryRadiusPx * 1.85)^2
stationaryExitRadiusSq(w, h) == MulDiv(stationaryRadiusSq(w, h), 34225, 10000)

\* (max(20, stationaryExitRadiusPx * 1.6, diag * 0.023))^2
anchorClusterRadiusSq(w, h) ==
    Max(Max(400000000, MulDiv(stationaryExitRadiusSq(w, h), 256, 100)),
        529 * diagSq(w, h))

\* (max(2.2, stationaryRadiusPx * 0.55))^2
microMoveSq(w, h) == Max(4840000, MulDiv(stationaryRadiusSq(w, h), 3025, 10000))

\* (anchorClusterRadiusPx * 0.65)^2
exitGateSq(w, h) == MulDiv(anchorClusterRadiusSq(w, h), 4225, 10000)

\* dist <= threshold and dist < threshold, dist given by its integer square
LeRadius(d2, tSq) == d2 <= tSq \div SQ
LtRadius(d2, tSq) == d2 < CeilDiv(tSq, SQ)

\* elapsedMs that counts a timestamp that does not parse as time 0
elapsedMs_unparsedAsZero(prevTs, currTs) == Max(0, Max(0, currTs) - Max(0, prevTs))

\* Math.max(0, currMs - prevMs), or null when either timestamp does not parse
elapsedMs(prevTs, currTs) ==
    IF timestampMs(prevTs) # Null /\ timestampMs(currTs) # Null
    THEN Max(0, timestampMs(currTs) - timestampMs(prevTs))
    ELSE Null

-----------------------------------------------------------------------------
(* simplifyTrajectoryForPatrol: the scan and the tail handling *)

\* const first = {...points[0], step_px: 0, speed_px_s: 0} and the scan locals
scanInit(pts) ==
    LET first == [pts[1] EXCEPT !.step_px = 0, !.speed_px_s = 0]
    IN  [simplified |-> <<first>>,
         anchorX |-> first.x,
         anchorY |-> first.y,
         anchorSinceMs |-> timestampMs(first.timestamp),
         inStationaryMode |-> FALSE]

lastKept(s) == s.simplified[Len(s.simplified)]

\* pushFrom that measures the step to the sample's own place
pushFrom_rawStep(s, point, x, y) ==
    LET dtMs == elapsedMs(lastKept(s).timestamp, point.timestamp)
        step == HypotMilli(DistSq(point.x, point.y, lastKept(s).x, lastKept(s).y))
        speed == IF dtMs # Null /\ dtMs > 0 THEN SpeedMilli(step, dtMs) ELSE Null
        next == [point EXCEPT !.x = x, !.y = y, !.step_px = step, !.speed_px_s = speed]
    IN  [s EXCEPT !.simplified = Append(@, next)]

\* pushFrom(point, x, y): appends to simplified, which makes it lastKept
pushFrom(s, point, x, y) ==
    LET dtMs == elapsedMs(lastKept(s).timestamp, point.timestamp)
        step == HypotMilli(DistSq(x, y, lastKept(s).x, lastKept(s).y))
        speed == IF dtMs # Null /\ dtMs > 0 THEN SpeedMilli(step, dtMs) ELSE Null
        next == [point EXCEPT !.x = x, !.y = y, !.step_px = step, !.speed_px_s = speed]
    IN  [s EXCEPT !.simplified = Append(@, next)]

\* scanNear that retains the dwell point at the sample's own coordinate
scanNear_raw(s, curr) ==
    LET currMs == timestampMs(curr.timestamp)
        dtMs == elapsedMs(lastKept(s).timestamp, curr.timestamp)
        s1 == IF currMs = Null THEN s
              ELSE IF s.anchorSinceMs = Null
                   THEN [s EXCEPT !.anchorSinceMs = currMs]
              ELSE IF ~s.inStationaryMode /\ currMs - s.anchorSinceMs >= minDwellConfirmMs
                   THEN [s EXCEPT !.inStationaryMode = TRUE]
              ELSE s
    IN  IF s1.inStationaryMode /\ dtMs # Null /\ dtMs >= minStationaryGapMs
        THEN pushFrom(s1, curr, curr.x, curr.y)
        ELSE s1

\* scanNear that confirms the dwell without waiting for min_dwell_confirm
scanNear_eager(s, curr) ==
    LET currMs == timestampMs(curr.timestamp)
        dtMs == elapsedMs(lastKept(s).timestamp, curr.timestamp)
        s1 == IF currMs = Null THEN s
              ELSE IF s.anchorSinceMs = Null
                   THEN [s EXCEPT !.anchorSinceMs = currMs]
              ELSE [s EXCEPT !.inStationaryMode = TRUE]
    IN  IF s1.inStationaryMode /\ dtMs # Null /\ dtMs >= minStationaryGapMs
        THEN pushFrom(s1, curr, s1.anchorX, s1.anchorY)
        ELSE s1

\* scanNear that confirms the dwell only after 8 times min_dwell_confirm,
\* which is more than min_stationary_gap
scanNear_lateConfirm(s, curr) ==
    LET currMs == timestampMs(curr.timestamp)
        dtMs == elapsedMs(lastKept(s).timestamp, curr.timestamp)
        s1 == IF currMs = Null THEN s
              ELSE IF s.anchorSinceMs = Null
                   THEN [s EXCEPT !.anchorSinceMs = currMs]
              ELSE IF ~s.inStationaryMode /\ currMs - s.anchorSinceMs >= 8 * minDwellConfirmMs
                   THEN [s EXCEPT !.inStationaryMode = TRUE]
              ELSE s
    IN  IF s1.inStationaryMode /\ dtMs # Null /\ dtMs >= minStationaryGapMs
        THEN pushFrom(s1, curr, s1.anchorX, s1.anchorY)
        ELSE s1

\* the near-anchor branch of one scan iteration
scanNear(s, curr) ==
    LET currMs == timestampMs(curr.timestamp)
        dtMs == elapsedMs(lastKept(s).timestamp, curr.timestamp)
        s1 == IF currMs = Null THEN s
              ELSE IF s.anchorSinceMs = Null
                   THEN [s EXCEPT !.anchorSinceMs = currMs]
              ELSE IF ~s.inStationaryMode /\ currMs - s.anchorSinceMs >= minDwellConfirmMs
                   THEN [s EXCEPT !.inStationaryMode = TRUE]
              ELSE s
    IN  IF s1.inStationaryMode /\ dtMs # Null /\ dtMs >= minStationaryGapMs
        THEN pushFrom(s1, curr, s1.anchorX, s1.anchorY)
        ELSE s1

\* scanExit that retains the sample without promoting it to the anchor
scanExit_keepsAnchor(s, curr, w, h) ==
    LET dtMs == elapsedMs(lastKept(s).timestamp, curr.timestamp)
        distToLastSq == DistSq(curr.x, curr.y, lastKept(s).x, lastKept(s).y)
        s1 == [s EXCEPT !.inStationaryMode = FALSE]
    IN  IF dtMs # Null /\ dtMs < minMovingGapMs /\ LtRadius(distToLastSq, exitGateSq(w, h))
        THEN s1
        ELSE IF LtRadius(distToLastSq, microMoveSq(w, h))
        THEN s1
        ELSE pushFrom(s1, curr, curr.x, curr.y)

\* scanExit whose time gate reaches to twice anchor_cluster_radius
scanExit_wideGate(s, curr, w, h) ==
    LET dtMs == elapsedMs(lastKept(s).timestamp, curr.timestamp)
        distToLastSq == DistSq(curr.x, curr.y, lastKept(s).x, lastKept(s).y)
        s1 == [s EXCEPT !.inStationaryMode = FALSE]
    IN  IF dtMs # Null /\ dtMs < minMovingGapMs
           /\ distToLastSq < 4 * CeilDiv(anchorClusterRadiusSq(w, h), SQ)
        THEN s1
        ELSE IF LtRadius(distToLastSq, microMoveSq(w, h))
        THEN s1
        ELSE pushFrom([s1 EXCEPT !.anchorX = curr.x, !.anchorY = curr.y,
                                 !.anchorSinceMs = timestampMs(curr.timestamp)],
                      curr, curr.x, curr.y)

\* the branch of one scan iteration for a sample outside the anchor cluster
scanExit(s, curr, w, h) ==
    LET dtMs == elapsedMs(lastKept(s).timestamp, curr.timestamp)
        distToLastSq == DistSq(curr.x, curr.y, lastKept(s).x, lastKept(s).y)
        s1 == [s EXCEPT !.inStationaryMode = FALSE]
    IN  IF dtMs # Null /\ dtMs < minMovingGapMs /\ LtRadius(distToLastSq, exitGateSq(w, h))
        THEN s1
        ELSE IF LtRadius(distToLastSq, microMoveSq(w, h))
        THEN s1
        ELSE pushFrom([s1 EXCEPT !.anchorX = curr.x, !.anchorY = curr.y,
                                 !.anchorSinceMs = timestampMs(curr.timestamp)],
                      curr, curr.x, curr.y)

nearAnchor(s, curr, w, h) ==
    LeRadius(DistSq(curr.x, curr.y, s.anchorX, s.anchorY), anchorClusterRadiusSq(w, h))

\* the body of the for loop for points[i]
scanStep(s, curr, w, h) ==
    IF ~isFinite(curr.x) \/ ~isFinite(curr.y) THEN s
    ELSE IF nearAnchor(s, curr, w, h) THEN scanNear(s, curr)
    ELSE scanExit(s, curr, w, h)

\* tailStep without the suppression of a duplicate of the last retained point
tailStep_noDedupe(s, tail, w, h) ==
    IF ~isFinite(tail.x) \/ ~isFinite(tail.y) THEN s
    ELSE
      LET last == lastKept(s)
          dtMs == elapsedMs(last.timestamp, tail.timestamp)
          late == dtMs # Null /\ dtMs >= minStationaryGapMs
      IN  IF nearAnchor(s, tail, w, h) /\ late
          THEN pushFrom(s, tail, s.anchorX, s.anchorY)
          ELSE pushFrom(s, tail, tail.x, tail.y)

\* tailStep that asks for both the displacement and the elapsed time
tailStep_needsBoth(s, tail, w, h) ==
    IF ~isFinite(tail.x) \/ ~isFinite(tail.y) THEN s
    ELSE
      LET last == lastKept(s)
          sameTs == tsString(last.timestamp) = tsString(tail.timestamp)
          samePos == DistSq(last.x, last.y, tail.x, tail.y) = 0
          dtMs == elapsedMs(last.timestamp, tail.timestamp)
          tailDistSq == DistSq(tail.x, tail.y, last.x, last.y)
          late == dtMs # Null /\ dtMs >= minStationaryGapMs
      IN  IF sameTs /\ samePos THEN s
          ELSE IF ~(~LtRadius(tailDistSq, microMoveSq(w, h)) /\ late) THEN s
          ELSE IF nearAnchor(s, tail, w, h) /\ late
               THEN pushFrom(s, tail, s.anchorX, s.anchorY)
               ELSE pushFrom(s, tail, tail.x, tail.y)

\* the tail handling after the loop
tailStep(s, tail, w, h) ==
    IF ~isFinite(tail.x) \/ ~isFinite(tail.y) THEN s
    ELSE
      LET last == lastKept(s)
          sameTs == tsString(last.timestamp) = tsString(tail.timestamp)
          samePos == DistSq(last.x, last.y, tail.x, tail.y) = 0
          dtMs == elapsedMs(last.timestamp, tail.timestamp)
          tailDistSq == DistSq(tail.x, tail.y, last.x, last.y)
          late == dtMs # Null /\ dtMs >= minStationaryGapMs
      IN  IF sameTs /\ samePos THEN s
          ELSE IF ~(~LtRadius(tailDistSq, microMoveSq(w, h)) \/ late) THEN s
          ELSE IF nearAnchor(s, tail, w, h) /\ late
               THEN pushFrom(s, tail, s.anchorX, s.anchorY)
               ELSE pushFrom(s, tail, tail.x, tail.y)

RECURSIVE scanFrom(_, _, _, _, _)
scanFrom(s, pts, k, w, h) ==
    IF k > Len(pts) THEN s ELSE scanFrom(scanStep(s, pts[k], w, h), pts, k + 1, w, h)

\* the whole function
simplifyTrajectoryForPatrol(pts, frameWidth, frameHeight) ==
    IF Len(pts) = 0 THEN <<>>
    ELSE IF Len(pts) <= 2 THEN pts
    ELSE LET w == clampW(frameWidth)
             h == clampH(frameHeight)
         IN  tailStep(scanFrom(scanInit(pts), pts, 2, w, h), pts[Len(pts)], w, h).simplified

-----------------------------------------------------------------------------
(* trajectoryDurationMs, sampleTrajectory, buildTrajectorySegments *)

trajectoryDurationMs(pts) ==
    IF Len(pts) < 2 THEN 0
    ELSE LET start == timestampMs(pts[1].timestamp)
             end == timestampMs(pts[Len(pts)].timestamp)
         IN  IF start = Null \/ end = Null THEN 0 ELSE Max(0, end - start)

\* Math.round(a / b) for a >= 0, b > 0
RoundDiv(a, b) == (2 * a + b) \div (2 * b)

\* targetFor that cuts the quotient instead of rounding it
targetFor_floor(durationMs) ==
    IF durationMs > 0 THEN Max(80, Min(320, durationMs \div 30000)) ELSE 220

\* the adaptive target of renderSpatial
targetFor(durationMs) ==
    IF durationMs > 0 THEN Max(80, Min(320, RoundDiv(durationMs, 30000))) ELSE 220

\* sampleIndex that cuts the quotient instead of rounding it
sampleIndex_floor(n, maxPoints, k) ==
    Min(n - 1, (k * (n - 1)) \div Max(maxPoints - 1, 1))

\* 0-based index picked for output position k (0-based)
sampleIndex(n, maxPoints, k) ==
    Min(n - 1, RoundDiv(k * (n - 1), Max(maxPoints - 1, 1)))

sampleTrajectory(pts, maxPoints) ==
    IF Len(pts) <= maxPoints THEN pts
    ELSE [k \in 1..maxPoints |-> pts[sampleIndex(Len(pts), maxPoints, k - 1) + 1]]

\* Number.isFinite(Number(v)) ? Number(v) : other -- Number(null) is 0
numberOr(v, other) == IF v = Null THEN 0 ELSE IF v = NaN THEN other ELSE v

segmentStep(prev, curr) ==
    numberOr(curr.step_px, HypotMilli(DistSq(curr.x, curr.y, prev.x, prev.y)))

segmentOf(prev, curr) ==
    [coords |-> <<<<prev.x, prev.y>>, <<curr.x, curr.y>>>>,
     from |-> prev.timestamp,
     to |-> curr.timestamp,
     zone |-> curr.zone,
     step_px |-> segmentStep(prev, curr),
     speed_px_s |-> numberOr(curr.speed_px_s, Null)]

\* segmentsFrom without the filter on the step
RECURSIVE segmentsFrom_unfiltered(_, _, _)
segmentsFrom_unfiltered(pts, k, acc) ==
    IF k > Len(pts) THEN acc
    ELSE segmentsFrom_unfiltered(pts, k + 1, Append(acc, segmentOf(pts[k - 1], pts[k])))

RECURSIVE segmentsFrom(_, _, _)
segmentsFrom(pts, k, acc) ==
    IF k > Len(pts) THEN acc
    ELSE IF segmentStep(pts[k - 1], pts[k]) < 2000 THEN segmentsFrom(pts, k + 1, acc)
    ELSE segmentsFrom(pts, k + 1, Append(acc, segmentOf(pts[k - 1], pts[k])))

buildTrajectorySegments(pts) == segmentsFrom(pts, 2, <<>>)

-----------------------------------------------------------------------------
(* renderSpatial: validation and the zone timeline *)

\* the .map of the validator: absent numeric fields become null
validPoint(p) ==
    [p EXCEPT !.step_px = IF isFinite(@) THEN @ ELSE Null,
              !.speed_px_s = IF isFinite(@) THEN @ ELSE Null]

finitePoint(p) == isFinite(p.x) /\ isFinite(p.y)

\* validate without the filter on the coordinates
validate_unfiltered(raw) == [k \in 1..Len(raw) |-> validPoint(raw[k])]

validate(raw) == SelectSeq([k \in 1..Len(raw) |-> validPoint(raw[k])], finitePoint)

KnownZones == {"wheel_zone", "food_zone", "sand_bath_zone", "hideout_zone", "outside"}

normalizeZoneTimelineKey(zoneKey) == IF zoneKey \in KnownZones THEN zoneKey ELSE "unknown"

timelineEntry(item) ==
    [timestamp |-> item.timestamp, zone |-> normalizeZoneTimelineKey(item.zone)]

hasTimestamp(item) == item.timestamp # EmptyTs

timelineSource(ts) == SelectSeq([k \in 1..Len(ts) |-> timelineEntry(ts[k])], hasTimestamp)

fallbackTimelineSource(sampled) == [k \in 1..Len(sampled) |-> timelineEntry(sampled[k])]

timelineSourceEffective(ts, sampled) ==
    IF Len(timelineSource(ts)) > 0 THEN timelineSource(ts) ELSE fallbackTimelineSource(sampled)

timelineTargetSamples(n) == Max(80, Min(360, Max(1, n)))

\* segEndFrom that never extends the run
segEndFrom_single(zones, segZone, e) == e

\* inner while loop: the last index of the run of segZone that starts at or before e
RECURSIVE segEndFrom(_, _, _)
segEndFrom(zones, segZone, e) ==
    IF e + 1 < Len(zones) /\ zones[e + 2] = segZone
    THEN segEndFrom(zones, segZone, e + 1)
    ELSE e

\* dwellMinOf without the clamp at 0
dwellMinOf_unclamped(startTs, endTs) ==
    IF timestampMs(startTs) # Null /\ timestampMs(endTs) # Null
    THEN timestampMs(endTs) - timestampMs(startTs)
    ELSE Null

\* Math.max(0, (endMs - startMs) / 60000) or null; the value is kept in
\* milliseconds, so v stands for v / 60000 minutes
dwellMinOf(startTs, endTs) ==
    IF timestampMs(startTs) # Null /\ timestampMs(endTs) # Null
    THEN Max(0, timestampMs(endTs) - timestampMs(startTs))
    ELSE Null

-----------------------------------------------------------------------------
(* Inputs *)

MaxLen == 4
MaxWideLen == 3
MaxTimeline == 3
MaxLongLen == 3
MaxEdgeLen == 4
MaxInvocations == 2

\* positions on the default plane: the start, a point closer than micro_move,
\* a point inside the anchor cluster, a point outside it
Positions == {<<10, 10>>, <<11, 11>>, <<16, 10>>, <<50, 50>>}

\* the zone polygons of the upstream classifier; <<16, 10>> lies in no zone
zoneAt(pos) ==
    IF pos[1] >= 40 THEN "sand_bath_zone" ELSE IF pos[1] <= 12 THEN "food_zone" ELSE ""

\* time to the previous parseable sample: below min_moving_gap, between
\* min_dwell_confirm and min_stationary_gap, above min_stationary_gap
Gaps == {1000, 95000}
MidGaps == {1000, 13000, 95000}

DefaultPlane == <<100, 100>>
Planes == {DefaultPlane, <<0, 0>>, <<0, 1200>>, <<1600, 1200>>}

\* a sample of the upstream tracker: a position (or non-finite coordinates)
\* and the choice of its timestamp
FirstChoices == (Positions \X {0, BadTs}) \cup {<<<<NaN, NaN>>, 0>>}
NextChoices(gaps) == (Positions \X (gaps \cup {BadTs})) \cup {<<<<NaN, NaN>>, BadTs>>}

rawPoint(pos, ts, step) ==
    [x |-> pos[1], y |-> pos[2], timestamp |-> ts,
     zone |-> IF pos[1] = NaN THEN "" ELSE zoneAt(pos),
     step_px |-> step, speed_px_s |-> NaN]

\* the step_px the backend attaches when it attaches one
backendStep(prev, pos) ==
    IF prev[1] = NaN \/ pos[1] = NaN THEN 0
    ELSE HypotMilli(DistSq(pos[1], pos[2], prev[1], prev[2]))

RECURSIVE rawFrom(_, _, _, _, _)
rawFrom(acc, clock, prev, choices, withSteps) ==
    IF choices = <<>> THEN acc
    ELSE LET c == Head(choices)
             ts == IF c[2] = BadTs THEN BadTs ELSE clock + c[2]
             step == IF withSteps THEN backendStep(prev, c[1]) ELSE NaN
         IN  rawFrom(Append(acc, rawPoint(c[1], ts, step)),
                     IF c[2] = BadTs THEN clock ELSE clock + c[2],
                     c[1], Tail(choices), withSteps)

rawTrajectoryOf(choices, withSteps) ==
    IF choices = <<>> THEN <<>>
    ELSE rawFrom(<<>>, 0, <<NaN, NaN>>, choices, withSteps)

TimelineZones == {"food_zone", "sand_bath_zone", "nest"}
TimelineStamps == {0, 10000, 20000, BadTs, EmptyTs}
TimelineItems == [timestamp : TimelineStamps, zone : TimelineZones]

\* the two worked examples of the documentation
ScenarioTrajectory ==
    <<rawPoint(<<10, 10>>, 0, NaN), rawPoint(<<11, 11>>, 1000, NaN),
      rawPoint(<<10, 9>>, 2000, NaN), rawPoint(<<50, 50>>, 30000, NaN),
      rawPoint(<<50, 50>>, 300000, NaN)>>

ScenarioTimeline ==
    <<[timestamp |-> 0, zone |-> "food_zone"],
      [timestamp |-> 10000, zone |-> "food_zone"],
      [timestamp |-> 20000, zone |-> "sand_bath_zone"],
      [timestamp |-> 30000, zone |-> "sand_bath_zone"],
      [timestamp |-> 40000, zone |-> "sand_bath_zone"]>>

\* long recordings: gaps of 40 min 45 s, 100 min and 200 min
FarPositions == {<<10, 10>>, <<50, 50>>}
LongGaps == {2445000, 6000000, 12000000}

\* samples that repeat a timestamp, and a place just beyond the anchor cluster
\* of <<10, 10>> (21 px away, the cluster radius is 20)
EdgePositions == {<<10, 10>>, <<31, 10>>}
EdgeGaps == {0, 1000, 95000}

\* time series longer than the 360 entries the timeline chart takes: one
\* entry a second, the zone changing every minute
LongTimelineLens == {361, 362, 540, 719}
LongTimeline(n) ==
    [k \in 1..n |->
        [timestamp |-> (k - 1) * 1000,
         zone |-> IF ((k - 1) \div 60) % 2 = 0 THEN "food_zone" ELSE "sand_bath_zone"]]

\* the same with a visit of one second to the hideout, at entry b (from 1)
BlipAt == {62, 63, 181}
LongTimelineBlip(n, b) == [LongTimeline(n) EXCEPT ![b].zone = "hideout_zone"]

NoScan ==
    [simplified |-> <<>>, anchorX |-> 0, anchorY |-> 0,
     anchorSinceMs |-> Null, inStationaryMode |-> FALSE]

InitRest ==
    /\ invocations = 1
    /\ pc = "validate"
    /\ trajectoryPoints = <<>>
    /\ points = <<>>
    /\ scan = NoScan
    /\ i = 0
    /\ simplifiedTrajectory = <<>>
    /\ targetSamplePoints = 220
    /\ sampledTrajectory = <<>>
    /\ trajectorySegments = <<>>
    /\ sampledTimeline = <<>>
    /\ zoneTimeline = <<>>
    /\ dwellMinutesByIndex = <<>>
    /\ segStart = 0
    /\ runs = <<>>

\* a trajectory without a time series (the timeline falls back to the trajectory):
\* up to MaxLen samples on the default plane, up to MaxWideLen samples on every
\* plane and with the wider choice of gaps
InitTrajectory ==
    /\ timeseries = <<>>
    /\ \/ /\ rawTrajectory = <<>>
          /\ plane \in Planes
       \/ \E n \in 1..MaxLen :
            \E first \in FirstChoices, rest \in [1..(n - 1) -> NextChoices(Gaps)] :
              /\ rawTrajectory \in
                    {rawTrajectoryOf(<<first>> \o rest, ws) :
                        ws \in IF n <= 2 THEN BOOLEAN ELSE {FALSE}}
              /\ plane = DefaultPlane
       \/ \E n \in 1..MaxWideLen :
            \E first \in FirstChoices, rest \in [1..(n - 1) -> NextChoices(MidGaps)] :
              /\ rawTrajectory = rawTrajectoryOf(<<first>> \o rest, FALSE)
              /\ plane \in Planes
       \/ /\ rawTrajectory = ScenarioTrajectory
          /\ plane = DefaultPlane

\* a time series next to an empty or a fixed trajectory
InitTimeseries ==
    /\ plane = DefaultPlane
    /\ rawTrajectory \in {<<>>, ScenarioTrajectory}
    /\ \/ \E n \in 1..MaxTimeline : timeseries \in [1..n -> TimelineItems]
       \/ timeseries = ScenarioTimeline

\* a recording of hours, on the default plane
InitLong ==
    /\ timeseries = <<>>
    /\ plane = DefaultPlane
    /\ \E n \in 2..MaxLongLen :
         \E first \in FarPositions \X {0}, rest \in [1..(n - 1) -> FarPositions \X LongGaps] :
            rawTrajectory = rawTrajectoryOf(<<first>> \o rest, FALSE)

\* repeated timestamps and brief excursions just beyond the anchor cluster
InitEdge ==
    /\ timeseries = <<>>
    /\ plane = DefaultPlane
    /\ \E n \in 1..MaxEdgeLen :
         \E first \in EdgePositions \X {0}, rest \in [1..(n - 1) -> EdgePositions \X EdgeGaps] :
            rawTrajectory \in
                {rawTrajectoryOf(<<first>> \o rest, ws) :
                    ws \in IF n <= 2 THEN BOOLEAN ELSE {FALSE}}

\* a long time series next to the fixed trajectory
InitLongTimeseries ==
    /\ plane = DefaultPlane
    /\ rawTrajectory = ScenarioTrajectory
    /\ \E n \in LongTimelineLens :
          \/ timeseries = LongTimeline(n)
          \/ \E b \in BlipAt : timeseries = LongTimelineBlip(n, b)

Init ==
    InitRest /\ (InitTrajectory \/ InitTimeseries \/ InitLong \/ InitEdge
                    \/ InitLongTimeseries)

-----------------------------------------------------------------------------
(* renderSpatial, one step at a time *)

\* rawTrajectory.map(...).filter(...)
Validate ==
    /\ pc = "validate"
    /\ trajectoryPoints' = validate(rawTrajectory)
    /\ points' = validate(rawTrajectory)
    /\ pc' = "simplify"
    /\ UNCHANGED <<invocations, rawTrajectory, timeseries, plane, scan, i, simplifiedTrajectory,
                   targetSamplePoints, sampledTrajectory, trajectorySegments,
                   sampledTimeline, zoneTimeline, dwellMinutesByIndex, segStart, runs>>

\* simplifyTrajectoryForPatrol: the two early returns
SimplifyShort ==
    /\ pc = "simplify"
    /\ Len(points) <= 2
    /\ simplifiedTrajectory' = points
    /\ pc' = "sample"
    /\ UNCHANGED <<invocations, rawTrajectory, timeseries, plane, trajectoryPoints, points, scan, i,
                   targetSamplePoints, sampledTrajectory, trajectorySegments,
                   sampledTimeline, zoneTimeline, dwellMinutesByIndex, segStart, runs>>

\* simplifyTrajectoryForPatrol: thresholds, first point, scan locals
SimplifyBegin ==
    /\ pc = "simplify"
    /\ Len(points) > 2
    /\ scan' = scanInit(points)
    /\ i' = 1
    /\ pc' = "scan"
    /\ UNCHANGED <<invocations, rawTrajectory, timeseries, plane, trajectoryPoints, points,
                   simplifiedTrajectory, targetSamplePoints, sampledTrajectory,
                   trajectorySegments, sampledTimeline, zoneTimeline,
                   dwellMinutesByIndex, segStart, runs>>

\* one iteration of the for loop
ScanIteration ==
    /\ pc = "scan"
    /\ i < Len(points)
    /\ scan' = scanStep(scan, points[i + 1], clampW(plane[1]), clampH(plane[2]))
    /\ i' = i + 1
    /\ UNCHANGED <<invocations, pc, rawTrajectory, timeseries, plane, trajectoryPoints, points,
                   simplifiedTrajectory, targetSamplePoints, sampledTrajectory,
                   trajectorySegments, sampledTimeline, zoneTimeline,
                   dwellMinutesByIndex, segStart, runs>>

\* SimplifyTail that leaves the scan locals behind
SimplifyTail_keepsScan ==
    /\ pc = "scan"
    /\ i >= Len(points)
    /\ simplifiedTrajectory' =
          tailStep(scan, points[Len(points)], clampW(plane[1]), clampH(plane[2])).simplified
    /\ pc' = "sample"
    /\ UNCHANGED <<invocations, rawTrajectory, timeseries, plane, trajectoryPoints, points,
                   scan, i, targetSamplePoints, sampledTrajectory, trajectorySegments,
                   sampledTimeline, zoneTimeline, dwellMinutesByIndex, segStart, runs>>

\* the tail handling and the return
SimplifyTail ==
    /\ pc = "scan"
    /\ i >= Len(points)
    /\ simplifiedTrajectory' =
          tailStep(scan, points[Len(points)], clampW(plane[1]), clampH(plane[2])).simplified
    /\ scan' = NoScan
    /\ i' = 0
    /\ pc' = "sample"
    /\ UNCHANGED <<invocations, rawTrajectory, timeseries, plane, trajectoryPoints, points,
                   targetSamplePoints, sampledTrajectory, trajectorySegments,
                   sampledTimeline, zoneTimeline, dwellMinutesByIndex, segStart, runs>>

\* trajectoryDurationMs, the adaptive target, sampleTrajectory
Sample ==
    /\ pc = "sample"
    /\ targetSamplePoints' = targetFor(trajectoryDurationMs(simplifiedTrajectory))
    /\ sampledTrajectory' =
          sampleTrajectory(simplifiedTrajectory,
                           targetFor(trajectoryDurationMs(simplifiedTrajectory)))
    /\ pc' = "segments"
    /\ UNCHANGED <<invocations, rawTrajectory, timeseries, plane, trajectoryPoints, points, scan, i,
                   simplifiedTrajectory, trajectorySegments, sampledTimeline,
                   zoneTimeline, dwellMinutesByIndex, segStart, runs>>

BuildSegments ==
    /\ pc = "segments"
    /\ trajectorySegments' = buildTrajectorySegments(sampledTrajectory)
    /\ pc' = "timeline"
    /\ UNCHANGED <<invocations, rawTrajectory, timeseries, plane, trajectoryPoints, points, scan, i,
                   simplifiedTrajectory, targetSamplePoints, sampledTrajectory,
                   sampledTimeline, zoneTimeline, dwellMinutesByIndex, segStart, runs>>

\* timeline source, its sampling, zoneTimeline, the null-filled dwell array
BuildTimeline ==
    /\ pc = "timeline"
    /\ LET effective == timelineSourceEffective(timeseries, sampledTrajectory)
           sampled == sampleTrajectory(effective, timelineTargetSamples(Len(effective)))
       IN  /\ sampledTimeline' = sampled
           /\ zoneTimeline' =
                 [k \in 1..Len(sampled) |-> normalizeZoneTimelineKey(sampled[k].zone)]
           /\ dwellMinutesByIndex' = [k \in 1..Len(sampled) |-> Null]
    /\ segStart' = 0
    /\ runs' = <<>>
    /\ pc' = "zones"
    /\ UNCHANGED <<invocations, rawTrajectory, timeseries, plane, trajectoryPoints, points, scan, i,
                   simplifiedTrajectory, targetSamplePoints, sampledTrajectory,
                   trajectorySegments>>

\* one iteration of the outer while loop of the zone dwell computation
ZoneRun ==
    /\ pc = "zones"
    /\ segStart < Len(zoneTimeline)
    /\ LET segZone == zoneTimeline[segStart + 1]
           segEnd == segEndFrom(zoneTimeline, segZone, segStart)
           dwellMin == dwellMinOf(sampledTimeline[segStart + 1].timestamp,
                                  sampledTimeline[segEnd + 1].timestamp)
       IN  /\ dwellMinutesByIndex' =
                 [k \in 1..Len(dwellMinutesByIndex) |->
                     IF segStart + 1 <= k /\ k <= segEnd + 1
                     THEN dwellMin ELSE dwellMinutesByIndex[k]]
           /\ runs' = Append(runs, [segStart |-> segStart, segEnd |-> segEnd,
                                    segZone |-> segZone, dwellMin |-> dwellMin])
           /\ segStart' = segEnd + 1
    /\ UNCHANGED <<invocations, pc, rawTrajectory, timeseries, plane, trajectoryPoints, points, scan,
                   i, simplifiedTrajectory, targetSamplePoints, sampledTrajectory,
                   trajectorySegments, sampledTimeline, zoneTimeline>>

\* the loop condition fails: the charts are drawn
ZonesDone ==
    /\ pc = "zones"
    /\ segStart >= Len(zoneTimeline)
    /\ pc' = "done"
    /\ UNCHANGED <<invocations, rawTrajectory, timeseries, plane, trajectoryPoints, points, scan, i,
                   simplifiedTrajectory, targetSamplePoints, sampledTrajectory,
                   trajectorySegments, sampledTimeline, zoneTimeline,
                   dwellMinutesByIndex, segStart, runs>>

\* the data of a later refresh
ReinvokeInputs ==
    {<<ScenarioTrajectory, <<>>, DefaultPlane>>,
     <<ScenarioTrajectory, ScenarioTimeline, <<1600, 1200>>>>,
     <<<<>>, ScenarioTimeline, DefaultPlane>>,
     <<<<>>, <<>>, <<0, 0>>>>}

\* renderDashboard calls renderSpatial again: every const and let of the call
\* before is gone, the new call starts from its own arguments
Reinvoke ==
    /\ pc = "done"
    /\ invocations < MaxInvocations
    /\ invocations' = invocations + 1
    /\ \E input \in ReinvokeInputs :
          /\ rawTrajectory' = input[1]
          /\ timeseries' = input[2]
          /\ plane' = input[3]
    /\ pc' = "validate"
    /\ trajectoryPoints' = <<>>
    /\ points' = <<>>
    /\ scan' = NoScan
    /\ i' = 0
    /\ simplifiedTrajectory' = <<>>
    /\ targetSamplePoints' = 220
    /\ sampledTrajectory' = <<>>
    /\ trajectorySegments' = <<>>
    /\ sampledTimeline' = <<>>
    /\ zoneTimeline' = <<>>
    /\ dwellMinutesByIndex' = <<>>
    /\ segStart' = 0
    /\ runs' = <<>>

Next ==
    \/ Validate
    \/ SimplifyShort
    \/ SimplifyBegin
    \/ ScanIteration
    \/ SimplifyTail
    \/ Sample
    \/ BuildSegments
    \/ BuildTimeline
    \/ ZoneRun
    \/ ZonesDone
    \/ Reinvoke

Spec == Init /\ [][Next]_vars

\* renderSpatial is synchronous: a loop that can take its next step takes it
FairSpec == Spec /\ WF_vars(ZoneRun) /\ WF_vars(ZonesDone)

-----------------------------------------------------------------------------
(* Properties of simplifyTrajectoryForPatrol *)

\* simplifyTrajectoryForPatrol has returned; points is still its argument
Returned == pc \in {"sample", "segments", "timeline", "zones", "done"}

W == clampW(plane[1])
H == clampH(plane[2])

\* the scan locals when the for loop ends
finalScan == scanFrom(scanInit(points), points, 2, W, H)

\* the tail handling added a point
TailAdded == Len(points) > 2 /\ Len(simplifiedTrajectory) > Len(finalScan.simplified)

SamePlace(p, q) == p.x = q.x /\ p.y = q.y

StepSq(pts, k) == DistSq(pts[k].x, pts[k].y, pts[k - 1].x, pts[k - 1].y)

Parses(pts) == \A k \in 1..Len(pts) : timestampMs(pts[k].timestamp) # Null

\* the samples alternate between two places less than anchor_cluster_radius
\* apart, every gap below min_moving_gap
Oscillation(pts) ==
    /\ Len(pts) >= 3
    /\ Parses(pts)
    /\ ~SamePlace(pts[1], pts[2])
    /\ LtRadius(StepSq(pts, 2), anchorClusterRadiusSq(W, H))
    /\ \A k \in 1..Len(pts) : SamePlace(pts[k], pts[IF k % 2 = 1 THEN 1 ELSE 2])
    /\ \A k \in 2..Len(pts) :
          /\ pts[k].timestamp >= pts[k - 1].timestamp
          /\ pts[k].timestamp - pts[k - 1].timestamp < minMovingGapMs

\* C1 (as claimed): an oscillation between two places inside the anchor
\* cluster, every gap below min_moving_gap, leaves at most one returned point.
C1_JitterSuppression ==
    (Returned /\ Oscillation(points)) => Len(simplifiedTrajectory) <= 1

\* every step is longer than the radius given by its scaled square rSq and
\* takes longer than min_moving_gap
StepsBeyond(pts, rSq) ==
    /\ Len(pts) >= 1
    /\ Parses(pts)
    /\ \A k \in 2..Len(pts) :
          /\ ~LeRadius(StepSq(pts, k), rSq)
          /\ pts[k].timestamp - pts[k - 1].timestamp > minMovingGapMs

\* the output keeps every sample, at its place and time
KeepsEverySample ==
    /\ Len(simplifiedTrajectory) = Len(points)
    /\ \A k \in 1..Len(points) :
          /\ SamePlace(simplifiedTrajectory[k], points[k])
          /\ simplifiedTrajectory[k].timestamp = points[k].timestamp

\* C2 (as claimed): steps each longer than micro_move and slower than
\* min_moving_gap are all retained at their raw coordinates.
C2_MovementFidelity ==
    (Returned /\ StepsBeyond(points, microMoveSq(W, H))) => KeepsEverySample

\* C2 (amended): steps each longer than anchor_cluster_radius and slower than
\* min_moving_gap are all retained at their raw coordinates.
C2_MovementFidelityBeyondCluster ==
    (Returned /\ StepsBeyond(points, anchorClusterRadiusSq(W, H))) => KeepsEverySample

C2_Witness ==
    /\ Returned
    /\ Len(points) >= 4
    /\ StepsBeyond(points, anchorClusterRadiusSq(W, H))

\* a point every sample lies within stationary_radius of
DwellCentre == <<13, 10>>

\* all samples within stationary_radius of DwellCentre, spanning more than
\* min_dwell_confirm
Dwell(pts) ==
    /\ Len(pts) >= 2
    /\ Parses(pts)
    /\ \A k \in 1..Len(pts) :
          LeRadius(DistSq(pts[k].x, pts[k].y, DwellCentre[1], DwellCentre[2]),
                   stationaryRadiusSq(W, H))
    /\ \A k \in 2..Len(pts) : pts[k].timestamp >= pts[k - 1].timestamp
    /\ pts[Len(pts)].timestamp - pts[1].timestamp > minDwellConfirmMs

\* C3 (as claimed): a dwell returns points at one single coordinate, each at
\* least min_stationary_gap after the one before.
C3_DwellCorrectness ==
    (Returned /\ Dwell(points)) =>
        \A k \in 2..Len(simplifiedTrajectory) :
            /\ SamePlace(simplifiedTrajectory[k], simplifiedTrajectory[1])
            /\ simplifiedTrajectory[k].timestamp - simplifiedTrajectory[k - 1].timestamp
                  >= minStationaryGapMs

FirstReturned == simplifiedTrajectory[1]
LastReturned == simplifiedTrajectory[Len(simplifiedTrajectory)]
LastSample == points[Len(points)]

FirstPreserved ==
    /\ Len(simplifiedTrajectory) >= 1
    /\ SamePlace(FirstReturned, points[1])
    /\ FirstReturned.timestamp = points[1].timestamp

\* the last returned point carries the last sample's timestamp, at the
\* sample's own place or at the anchor
LastRepresented ==
    /\ Len(simplifiedTrajectory) >= 1
    /\ LastReturned.timestamp = LastSample.timestamp
    /\ \/ SamePlace(LastReturned, LastSample)
       \/ /\ Len(points) > 2
          /\ LastReturned.x = finalScan.anchorX
          /\ LastReturned.y = finalScan.anchorY

\* the last sample is closer than micro_move to the last returned point and
\* less than min_stationary_gap (or an unknown time) after it
LastWithinGate ==
    /\ Len(points) > 2
    /\ LtRadius(DistSq(LastSample.x, LastSample.y, LastReturned.x, LastReturned.y),
                microMoveSq(W, H))
    /\ LET dtMs == elapsedMs(LastReturned.timestamp, LastSample.timestamp)
       IN  dtMs = Null \/ dtMs < minStationaryGapMs

\* C4 (as claimed): the first sample is the first returned point and the last
\* sample is always represented by the last returned point.
C4_EndpointPreservation ==
    (Returned /\ Len(points) >= 1) => (FirstPreserved /\ LastRepresented)

\* C4 (amended): the first sample is the first returned point; the last sample
\* is represented by the last returned point unless it lies closer than
\* micro_move to the last retained point and less than min_stationary_gap (or
\* an unknown time) after it, and then no point is added for it.
C4_EndpointPreservationGated ==
    (Returned /\ Len(points) >= 1) =>
        /\ FirstPreserved
        /\ LastRepresented \/ (LastWithinGate /\ ~TailAdded)

C4_Witness == Returned /\ TailAdded /\ LastRepresented /\ Len(simplifiedTrajectory) >= 3

\* C5: simplifying the output again returns as many points.
C5_Idempotence ==
    Returned =>
        Len(simplifyTrajectoryForPatrol(simplifiedTrajectory, plane[1], plane[2]))
            = Len(simplifiedTrajectory)

C5_Witness ==
    /\ Returned
    /\ TailAdded
    /\ Len(simplifiedTrajectory) >= 3
    /\ Len(simplifiedTrajectory) < Len(points)

-----------------------------------------------------------------------------
(* Properties of the pipeline *)

Segmented == pc \in {"timeline", "zones", "done"}

IsScenario == rawTrajectory = ScenarioTrajectory /\ plane = DefaultPlane

\* the three points the worked example is to give: step_px 56.569 is the
\* distance from (10,10) to (50,50)
ScenarioPoints ==
    /\ Len(simplifiedTrajectory) = 3
    /\ \A k \in 1..3 :
          /\ simplifiedTrajectory[k].x = <<10, 50, 50>>[k]
          /\ simplifiedTrajectory[k].y = <<10, 50, 50>>[k]
          /\ simplifiedTrajectory[k].timestamp = <<0, 30000, 300000>>[k]
    /\ simplifiedTrajectory[2].step_px = 56569
    /\ sampledTrajectory = simplifiedTrajectory

\* C6 (as claimed): the worked example gives 3 simplified points and 2 segments.
C6_EndToEnd ==
    (Segmented /\ IsScenario) => (ScenarioPoints /\ Len(trajectorySegments) = 2)

\* C6 (amended): the worked example gives 3 simplified points and 1 segment,
\* from (10,10) to (50,50); the pair ending on the dwell point at (50,50)@300s
\* has step_px 0 and gives no segment.
C6_EndToEndOneSegment ==
    (Segmented /\ IsScenario) =>
        /\ ScenarioPoints
        /\ Len(trajectorySegments) = 1
        /\ trajectorySegments[1].coords = <<<<10, 10>>, <<50, 50>>>>
        /\ trajectorySegments[1].step_px = 56569
        /\ simplifiedTrajectory[3].step_px = 0

C6_Witness == Segmented /\ IsScenario /\ timeseries = <<>>

\* segment j comes from the pair of points that ends at index f[j]
FromPair(seg, pts, k) ==
    /\ seg.coords = <<<<pts[k - 1].x, pts[k - 1].y>>, <<pts[k].x, pts[k].y>>>>
    /\ seg.from = pts[k - 1].timestamp
    /\ seg.to = pts[k].timestamp

\* C7: no segment has step_px below 2.0, and the segments come from
\* consecutive pairs of points in the order of the pairs, at most one per pair.
C7_SegmentFiltering ==
    Segmented =>
        /\ \A j \in 1..Len(trajectorySegments) : trajectorySegments[j].step_px >= 2000
        /\ \E f \in [1..Len(trajectorySegments) -> 2..Max(2, Len(sampledTrajectory))] :
              /\ \A j \in 1..Len(trajectorySegments) :
                    /\ f[j] <= Len(sampledTrajectory)
                    /\ FromPair(trajectorySegments[j], sampledTrajectory, f[j])
              /\ \A j \in 2..Len(trajectorySegments) : f[j - 1] < f[j]

\* two segments, and a pair of points that gave none
C7_Witness ==
    /\ Segmented
    /\ Len(trajectorySegments) >= 2
    /\ Len(trajectorySegments) < Len(sampledTrajectory) - 1

-----------------------------------------------------------------------------
(* Properties of the zone dwell loop *)

ZoneLooping == pc \in {"zones", "done"}

RunStart(j) == IF j = 1 THEN 0 ELSE runs[j - 1].segEnd + 1

\* the runs so far cover the entries before segStart, each entry once; each run
\* is one category; neighbouring runs differ in category
RunsPartition ==
    /\ segStart = RunStart(Len(runs) + 1)
    /\ segStart <= Len(zoneTimeline)
    /\ \A j \in 1..Len(runs) :
          /\ runs[j].segStart = RunStart(j)
          /\ runs[j].segStart <= runs[j].segEnd
          /\ \A k \in runs[j].segStart..runs[j].segEnd :
                zoneTimeline[k + 1] = runs[j].segZone
    /\ \A j \in 2..Len(runs) : runs[j].segZone # runs[j - 1].segZone
    /\ pc = "done" => segStart = Len(zoneTimeline)

IsTimelineScenario == timeseries = ScenarioTimeline

\* C8: the zone dwell loop splits the timeline into maximal runs of one
\* category, each entry in exactly one run, and it terminates; the labels
\* food, food, sand, sand, sand give 2 runs.
C8_ZoneRunStructure ==
    /\ [](ZoneLooping => RunsPartition)
    /\ []((pc = "done" /\ IsTimelineScenario) => Len(runs) = 2)
    /\ (pc = "zones") ~> (pc = "done")

\* a finished timeline of three runs, one of them longer than one entry
C8_Witness ==
    /\ pc = "done"
    /\ Len(runs) >= 3
    /\ \E j \in 1..Len(runs) : runs[j].segEnd > runs[j].segStart

RunStartTs(j) == sampledTimeline[runs[j].segStart + 1].timestamp
RunEndTs(j) == sampledTimeline[runs[j].segEnd + 1].timestamp
RunParses(j) == timestampMs(RunStartTs(j)) # Null /\ timestampMs(RunEndTs(j)) # Null

RunAssigned(j) ==
    \A k \in runs[j].segStart..runs[j].segEnd :
        dwellMinutesByIndex[k + 1] = runs[j].dwellMin

\* C9 (as claimed): the dwell of a run is end - start when both timestamps
\* parse and null otherwise, every index of the run gets it, and a run of one
\* entry has dwell 0.
C9_ZoneRunDwell ==
    ZoneLooping =>
        \A j \in 1..Len(runs) :
            /\ runs[j].dwellMin =
                  (IF RunParses(j) THEN RunEndTs(j) - RunStartTs(j) ELSE Null)
            /\ RunAssigned(j)
            /\ runs[j].segStart = runs[j].segEnd => runs[j].dwellMin = 0

\* C9 (amended): the dwell of a run is max(0, end - start) when both
\* timestamps parse and null otherwise, every index of the run gets it, and a
\* run of one entry has dwell 0 when its timestamp parses.
C9_ZoneRunDwellClamped ==
    ZoneLooping =>
        \A j \in 1..Len(runs) :
            /\ RunParses(j) =>
                  /\ RunEndTs(j) >= RunStartTs(j) =>
                        runs[j].dwellMin = RunEndTs(j) - RunStartTs(j)
                  /\ RunEndTs(j) < RunStartTs(j) => runs[j].dwellMin = 0
            /\ ~RunParses(j) => runs[j].dwellMin = Null
            /\ RunAssigned(j)
            /\ (runs[j].segStart = runs[j].segEnd /\ RunParses(j)) => runs[j].dwellMin = 0

\* a finished timeline of two runs or more, one of which ends earlier than it
\* starts
C9_Witness ==
    /\ pc = "done"
    /\ Len(runs) >= 2
    /\ \E j \in 1..Len(runs) : RunParses(j) /\ RunEndTs(j) < RunStartTs(j)

-----------------------------------------------------------------------------
(* Empty input *)

AllInvalid(raw) == \A k \in 1..Len(raw) : ~finitePoint(raw[k])

NoTimeseries == \A k \in 1..Len(timeseries) : timeseries[k].timestamp = EmptyTs

\* C10: with no valid sample every stage returns an empty list (the zone
\* aggregation too, unless a time series feeds it) and renderSpatial goes on
\* to its end.
C10_EmptyInput ==
    AllInvalid(rawTrajectory) =>
        /\ pc # "validate" => trajectoryPoints = <<>>
        /\ simplifiedTrajectory = <<>>
        /\ sampledTrajectory = <<>>
        /\ trajectorySegments = <<>>
        /\ NoTimeseries =>
              (sampledTimeline = <<>> /\ zoneTimeline = <<>> /\
               dwellMinutesByIndex = <<>> /\ runs = <<>>)
        /\ pc = "done" \/ ENABLED Next

C10_Witness ==
    /\ pc = "done"
    /\ Len(rawTrajectory) >= 2
    /\ AllInvalid(rawTrajectory)
    /\ NoTimeseries

-----------------------------------------------------------------------------
(* Repeated calls *)

\* the scan locals after the samples before index i, from the arguments alone
scanOfPrefix == scanFrom(scanInit(points), SubSeq(points, 1, i), 2, W, H)

\* C11: every result of a call is a function of its own samples and plane,
\* whatever calls ran before, and the scan locals (anchor, last retained
\* point, stationary flag) exist only while the scan runs.
C11_Stateless ==
    /\ pc # "scan" => (scan = NoScan /\ i = 0)
    /\ pc = "scan" => scan = scanOfPrefix
    /\ pc # "validate" =>
          (trajectoryPoints = validate(rawTrajectory) /\ points = trajectoryPoints)
    /\ Returned =>
          simplifiedTrajectory =
              simplifyTrajectoryForPatrol(validate(rawTrajectory), plane[1], plane[2])
    /\ Segmented =>
          /\ targetSamplePoints = targetFor(trajectoryDurationMs(simplifiedTrajectory))
          /\ sampledTrajectory = sampleTrajectory(simplifiedTrajectory, targetSamplePoints)
          /\ trajectorySegments = buildTrajectorySegments(sampledTrajectory)

\* a second call that went through the scan, after a first one that did too
C11_Witness ==
    /\ invocations = 2
    /\ pc = "done"
    /\ Len(points) > 2
    /\ Len(simplifiedTrajectory) >= 3

-----------------------------------------------------------------------------
(* Downsampling *)

\* the time from the first to the last simplified point, 0 when there are
\* fewer than 2 points, an end point has no parseable timestamp, or the last
\* point is not later than the first
D ==
    LET n == Len(simplifiedTrajectory)
    IN  IF n < 2 THEN 0
        ELSE IF timestampMs(simplifiedTrajectory[1].timestamp) = Null
                \/ timestampMs(simplifiedTrajectory[n].timestamp) = Null THEN 0
        ELSE IF simplifiedTrajectory[n].timestamp <= simplifiedTrajectory[1].timestamp THEN 0
        ELSE simplifiedTrajectory[n].timestamp - simplifiedTrajectory[1].timestamp

\* C12: the target is 220 when the duration is 0 or unknown, otherwise the
\* duration in units of 30 s rounded to the nearest whole number (halves up)
\* and clamped to 80..320; it always lies in 80..320.
C12_AdaptiveTarget ==
    Segmented =>
        /\ D = 0 => targetSamplePoints = 220
        /\ D > 0 =>
              LET r == (D + 15000) \div 30000
              IN  /\ 30000 * r - 15000 <= D
                  /\ D < 30000 * r + 15000
                  /\ targetSamplePoints = (IF r < 80 THEN 80 ELSE IF r > 320 THEN 320 ELSE r)
        /\ targetSamplePoints >= 80
        /\ targetSamplePoints <= 320

\* 40 min 45 s is 81.5 units of 30 s: the target is 82
C12_Witness == Segmented /\ D = 2445000 /\ targetSamplePoints = 82

\* the whole number nearest to k * (n - 1) / (t - 1), halves up
nearestIndex(n, t, k) ==
    CHOOSE r \in 0..n :
        /\ 2 * (t - 1) * r - (t - 1) <= 2 * k * (n - 1)
        /\ 2 * k * (n - 1) < 2 * (t - 1) * r + (t - 1)

\* out is src when src has at most t points; otherwise out has t points, the
\* k-th (from 0) is the point of src at the index nearest to k*(n-1)/(t-1),
\* and these indices start at 0, end at n-1 and increase strictly
SampledFrom(src, t, out) ==
    IF Len(src) <= t THEN out = src
    ELSE LET n == Len(src)
         IN  /\ Len(out) = t
             /\ \A k \in 0..(t - 1) : out[k + 1] = src[nearestIndex(n, t, k) + 1]
             /\ nearestIndex(n, t, 0) = 0
             /\ nearestIndex(n, t, t - 1) = n - 1
             /\ \A k \in 1..(t - 1) : nearestIndex(n, t, k - 1) < nearestIndex(n, t, k)

timelineInput == timelineSourceEffective(timeseries, sampledTrajectory)

\* C13: both uses of sampleTrajectory (the trajectory and the timeline) return
\* the sequence unchanged when it has no more points than the target, and
\* otherwise exactly target points at the rounded, strictly increasing indices
\* from 0 to n-1.
C13_DownsamplerSelection ==
    /\ Segmented =>
          SampledFrom(simplifiedTrajectory, targetSamplePoints, sampledTrajectory)
    /\ ZoneLooping =>
          SampledFrom(timelineInput, timelineTargetSamples(Len(timelineInput)),
                      sampledTimeline)

\* 719 entries sampled down to 360: the stride is 2, every second entry
C13_Witness ==
    /\ ZoneLooping
    /\ Len(timelineInput) = 719
    /\ Len(sampledTimeline) = 360
    /\ sampledTimeline[2] = timelineInput[3]

-----------------------------------------------------------------------------
(* Degenerate plane *)

\* widths and heights that are not positive numbers
DegenerateBounds == {0, -5, NaN, Null}

\* C14: a width or height that is <= 0 or no number counts as 1 and the
\* function returns as for any other plane; with both degenerate the
\* thresholds are 6.5, 20 and 3.575 and the output is that of a 1x1 plane.
C14_DegeneratePlane ==
    /\ \A v \in DegenerateBounds : clampW(v) = 1 /\ clampH(v) = 1
    /\ plane[1] \in DegenerateBounds => W = 1
    /\ plane[2] \in DegenerateBounds => H = 1
    /\ (plane[1] \in DegenerateBounds /\ plane[2] \in DegenerateBounds) =>
          /\ stationaryRadiusSq(W, H) = 42250000
          /\ anchorClusterRadiusSq(W, H) = 400000000
          /\ microMoveSq(W, H) = 12780625
          /\ Returned => simplifiedTrajectory = simplifyTrajectoryForPatrol(points, 1, 1)

\* a scan on a plane without bounds that retained a second point
C14_Witness ==
    /\ Returned
    /\ plane = <<0, 0>>
    /\ Len(points) > 2
    /\ Len(simplifiedTrajectory) >= 2

-----------------------------------------------------------------------------
(* One iteration of the scan *)

\* the for loop is about to handle points[i] (0-based), which is curr
Scanning == pc = "scan" /\ i < Len(points)
curr == points[i + 1]
currNear == finitePoint(curr) /\ nearAnchor(scan, curr, W, H)
currOutside == finitePoint(curr) /\ ~nearAnchor(scan, curr, W, H)

\* nothing was retained in the step
NothingAdded == scan'.simplified = scan.simplified

\* the step retained one point, at <<x, y>>, with the timestamp of curr
AddedAt(x, y) ==
    /\ Len(scan'.simplified) = Len(scan.simplified) + 1
    /\ SubSeq(scan'.simplified, 1, Len(scan.simplified)) = scan.simplified
    /\ lastKept(scan').x = x
    /\ lastKept(scan').y = y
    /\ lastKept(scan').timestamp = curr.timestamp

AnchorKept == scan'.anchorX = scan.anchorX /\ scan'.anchorY = scan.anchorY

\* C15: a sample within anchor_cluster_radius of the anchor leaves the anchor
\* where it is; it is retained exactly when the scan is in stationary mode
\* (the sample's own dwell update included) and the time since the last
\* retained point is known and at least min_stationary_gap, and then at the
\* anchor coordinate with the sample's timestamp.
C15_NearAnchorBranch ==
    [][(Scanning /\ currNear) =>
          /\ AnchorKept
          /\ LET dtMs == elapsedMs(lastKept(scan).timestamp, curr.timestamp)
             IN  IF scan'.inStationaryMode /\ dtMs # Null /\ dtMs >= minStationaryGapMs
                 THEN AddedAt(scan.anchorX, scan.anchorY)
                 ELSE NothingAdded]_vars

\* the sample handled last was retained at the anchor, away from its own place
C15_Witness ==
    /\ pc = "scan"
    /\ i >= 2
    /\ Len(scan.simplified) >= 2
    /\ lastKept(scan).timestamp = points[i].timestamp
    /\ lastKept(scan).x = scan.anchorX
    /\ lastKept(scan).y = scan.anchorY
    /\ ~SamePlace(lastKept(scan), points[i])

\* the scan locals before sample k (1-based) is handled
scanBefore(k) == scanFrom(scanInit(points), SubSeq(points, 1, k - 1), 2, W, H)

\* sample k fell outside the anchor cluster (or is the first sample): it set
\* the anchor
SetsAnchor(k) == k = 1 \/ ~nearAnchor(scanBefore(k), points[k], W, H)

\* the sample that set the current anchor, among the i samples handled
anchorIndex == CHOOSE a \in 1..i : SetsAnchor(a) /\ \A k \in (a + 1)..i : ~SetsAnchor(k)

\* since the anchor was set, the timestamps seen span min_dwell_confirm
DwellConfirmed ==
    \E f \in anchorIndex..i, m \in anchorIndex..i :
        /\ f <= m
        /\ timestampMs(points[f].timestamp) # Null
        /\ timestampMs(points[m].timestamp) # Null
        /\ points[m].timestamp - points[f].timestamp >= minDwellConfirmMs

\* C16: a sample outside the anchor cluster leaves the scan out of stationary
\* mode; a sample inside it starts the dwell timer if none runs, turns
\* stationary mode on exactly when its timestamp is at least min_dwell_confirm
\* after the anchor time, and never turns it off; stationary mode is never on
\* before min_dwell_confirm has passed since the anchor was set.
C16_Hysteresis ==
    /\ []((pc = "scan" /\ scan.inStationaryMode) => DwellConfirmed)
    /\ [][Scanning =>
            /\ currOutside => ~scan'.inStationaryMode
            /\ currNear =>
                  LET currMs == timestampMs(curr.timestamp)
                  IN  /\ currMs # Null => scan'.anchorSinceMs # Null
                      /\ scan'.inStationaryMode <=>
                            \/ scan.inStationaryMode
                            \/ /\ currMs # Null
                               /\ scan.anchorSinceMs # Null
                               /\ currMs - scan.anchorSinceMs >= minDwellConfirmMs]_vars

\* stationary mode was on and a sample outside the cluster has turned it off
C16_Witness ==
    /\ pc = "scan"
    /\ i >= 3
    /\ ~scan.inStationaryMode
    /\ scanBefore(i).inStationaryMode

\* curr follows the last retained point by less than min_moving_gap
Brief ==
    LET dtMs == elapsedMs(lastKept(scan).timestamp, curr.timestamp)
    IN  dtMs # Null /\ dtMs < minMovingGapMs

distToLastSq == DistSq(curr.x, curr.y, lastKept(scan).x, lastKept(scan).y)

\* curr lies outside the anchor cluster by no more than a tenth of its radius
JustBeyond ==
    /\ currOutside
    /\ 10000 * DistSq(curr.x, curr.y, scan.anchorX, scan.anchorY)
          <= 121 * (anchorClusterRadiusSq(W, H) \div 10000)

Suppressed == NothingAdded /\ AnchorKept

\* C17 (as claimed): a sample outside the anchor cluster is neither retained
\* nor made the anchor when it follows the last retained point by less than
\* min_moving_gap at under 0.65 anchor_cluster_radius, or lies under
\* micro_move from it; so a brief excursion just beyond the cluster boundary
\* sets no new anchor.
C17_ExitGates ==
    [][(Scanning /\ currOutside) =>
          /\ (Brief /\ LtRadius(distToLastSq, exitGateSq(W, H))) => Suppressed
          /\ LtRadius(distToLastSq, microMoveSq(W, H)) => Suppressed
          /\ (Brief /\ JustBeyond) => Suppressed]_vars

\* a sample outside the anchor cluster that one of the two gates stops
ExitGateFires ==
    /\ Scanning
    /\ currOutside
    /\ \/ Brief /\ LtRadius(distToLastSq, exitGateSq(W, H))
       \/ LtRadius(distToLastSq, microMoveSq(W, H))

-----------------------------------------------------------------------------
(* Derived fields and the tail *)

\* returned point k carries the distance from returned point k - 1 (in
\* thousandths, rounded) and that distance per second of elapsed time, or null
\* when the elapsed time is 0 or unknown
DerivedFrom(k) ==
    LET p == simplifiedTrajectory[k]
        q == simplifiedTrajectory[k - 1]
        dtMs == elapsedMs(q.timestamp, p.timestamp)
    IN  /\ p.step_px = HypotMilli(DistSq(p.x, p.y, q.x, q.y))
        /\ p.speed_px_s =
              (IF dtMs # Null /\ dtMs > 0
               THEN (2 * 1000 * p.step_px + dtMs) \div (2 * dtMs)
               ELSE Null)

Duplicate(p, q) == tsString(p.timestamp) = tsString(q.timestamp) /\ SamePlace(p, q)

\* the returned sequence ends with a point and its duplicate
EndsDoubled ==
    /\ Len(simplifiedTrajectory) >= 2
    /\ Duplicate(LastReturned, simplifiedTrajectory[Len(simplifiedTrajectory) - 1])

\* after the scan, the final sample duplicates the last retained point
TailIsDuplicate == Len(points) > 2 /\ Duplicate(LastSample, lastKept(finalScan))

\* C19 (as claimed): a final sample that duplicates the last retained point
\* adds no point, and no returned sequence ends with a point and its
\* duplicate.
C19_TailDuplicateSuppression ==
    Returned =>
        /\ TailIsDuplicate => simplifiedTrajectory = finalScan.simplified
        /\ ~EndsDoubled

\* C19 (amended): a final sample that duplicates the last retained point adds
\* no point, and the sequence returned for an input of more than 2 samples
\* does not end with a point and its duplicate; an input of 2 samples is
\* returned as received, duplicates included.
C19_TailDuplicateSuppressionScanned ==
    Returned =>
        /\ TailIsDuplicate => simplifiedTrajectory = finalScan.simplified
        /\ Len(points) > 2 => ~EndsDoubled
        /\ Len(points) <= 2 => simplifiedTrajectory = points

\* the scan retained the final sample itself, the tail handling added nothing
C19_Witness ==
    /\ Returned
    /\ TailIsDuplicate
    /\ Len(finalScan.simplified) >= 2
    /\ simplifiedTrajectory = finalScan.simplified

\* the scan locals when the loop reaches the final sample
scanAtTail == scanBefore(Len(points))

\* the final sample lies inside the anchor cluster, min_stationary_gap or more
\* after the point retained before it
TailDwells ==
    /\ Len(points) > 2
    /\ nearAnchor(scanAtTail, LastSample, W, H)
    /\ LET dtMs == elapsedMs(lastKept(scanAtTail).timestamp, LastSample.timestamp)
       IN  dtMs # Null /\ dtMs >= minStationaryGapMs

\* C20 (as claimed): a final sample inside the anchor cluster that follows the
\* previously retained point by min_stationary_gap or more is emitted at the
\* anchor coordinate, and that point is the last one returned.
C20_TailAnchorSnapping ==
    (Returned /\ TailDwells) =>
        /\ LastReturned.timestamp = LastSample.timestamp
        /\ LastReturned.x = scanAtTail.anchorX
        /\ LastReturned.y = scanAtTail.anchorY

\* the tail handling finds the final sample inside the anchor cluster and
\* min_stationary_gap or more after the last retained point
TailSnapBranch ==
    /\ Returned
    /\ Len(points) > 2
    /\ nearAnchor(finalScan, LastSample, W, H)
    /\ LET dtMs == elapsedMs(lastKept(finalScan).timestamp, LastSample.timestamp)
       IN  dtMs # Null /\ dtMs >= minStationaryGapMs

\* the final sample lies outside the anchor cluster the scan has reached
TailLeavesCluster ==
    /\ Len(points) > 2
    /\ ~nearAnchor(scanAtTail, LastSample, W, H)

\* C21: the final sample of an input of 3 or more samples that lies outside
\* anchor_cluster_radius of the current anchor is retained at its own
\* coordinate, becomes the anchor, and is returned exactly once, as the last
\* point.
C21_TailStartsCluster ==
    (Returned /\ TailLeavesCluster) =>
        /\ Len(simplifiedTrajectory) = Len(scanAtTail.simplified) + 1
        /\ SubSeq(simplifiedTrajectory, 1, Len(scanAtTail.simplified)) = scanAtTail.simplified
        /\ SamePlace(LastReturned, LastSample)
        /\ LastReturned.timestamp = LastSample.timestamp
        /\ finalScan.anchorX = LastSample.x
        /\ finalScan.anchorY = LastSample.y
        /\ finalScan.anchorSinceMs = timestampMs(LastSample.timestamp)

\* the final sample left the cluster after the scan had retained two points or
\* more, and lies away from the first sample
C21_Witness ==
    /\ Returned
    /\ TailLeavesCluster
    /\ Len(scanAtTail.simplified) >= 2
    /\ ~SamePlace(LastSample, points[1])

-----------------------------------------------------------------------------
(* Segments and dwell points *)

\* the point carries a step: the field is there and is a number
CarriesStep(p) == isFinite(p.step_px)

euclidMilli(prev, p) == HypotMilli(DistSq(p.x, p.y, prev.x, prev.y))

\* the step the documentation gives the pair ending at sampled point k
statedStep(k) ==
    IF CarriesStep(sampledTrajectory[k]) THEN sampledTrajectory[k].step_px
    ELSE euclidMilli(sampledTrajectory[k - 1], sampledTrajectory[k])

\* the pair ending at sampled point k gave a segment with step_px step
SegmentOfPair(k, step) ==
    \E j \in 1..Len(trajectorySegments) :
        /\ FromPair(trajectorySegments[j], sampledTrajectory, k)
        /\ trajectorySegments[j].step_px = step

\* C22 (as claimed): the step of a pair is the step_px its second point
\* carries, else the distance between the two points; a pair whose second
\* point carries none and lies 2.0 or more from the first gives a segment with
\* that distance as its step_px.
C22_SegmentStepSource ==
    Segmented =>
        \A k \in 2..Len(sampledTrajectory) :
            statedStep(k) >= 2000 => SegmentOfPair(k, statedStep(k))

\* a pair of points 2.0 or more apart whose second point carries no step, and
\* no segment for it
StepFallbackLost ==
    /\ Segmented
    /\ \E k \in 2..Len(sampledTrajectory) :
          /\ ~CarriesStep(sampledTrajectory[k])
          /\ euclidMilli(sampledTrajectory[k - 1], sampledTrajectory[k]) >= 2000
          /\ \A j \in 1..Len(trajectorySegments) :
                ~FromPair(trajectorySegments[j], sampledTrajectory, k)

-----------------------------------------------------------------------------
(* Zone runs and the source of the timeline *)

zonesOf(seq) == [k \in 1..Len(seq) |-> normalizeZoneTimelineKey(seq[k].zone)]

\* the indices (from 1) at which a maximal stretch of one category starts
stretchStarts(z) == {k \in 1..Len(z) : k = 1 \/ z[k] # z[k - 1]}

\* the start of the j-th of them
nthStart(z, j) ==
    CHOOSE k \in stretchStarts(z) :
        Cardinality({m \in stretchStarts(z) : m < k}) = j - 1

\* the runs are the maximal stretches of z, one run each, in order
RunsAre(z) ==
    /\ Len(runs) = Cardinality(stretchStarts(z))
    /\ {runs[j].segStart + 1 : j \in 1..Len(runs)} = stretchStarts(z)
    /\ \A j \in 1..Len(runs) :
          /\ runs[j].segZone = z[runs[j].segStart + 1]
          /\ runs[j].segEnd + 1 = Len(z) \/ (runs[j].segEnd + 2) \in stretchStarts(z)
          /\ \A k \in (runs[j].segStart + 2)..(runs[j].segEnd + 1) : k \notin stretchStarts(z)

\* C23 (as claimed): the runs are the maximal same-category stretches of the
\* source timeline, one run each (single entries too), whatever its length.
C23_ZoneRunsCoverSource ==
    pc = "done" =>
        LET z == zonesOf(timelineInput)
        IN  /\ Len(runs) = Cardinality(stretchStarts(z))
            /\ \A j \in 1..Len(runs) : runs[j].segZone = z[nthStart(z, j)]

\* C23 (amended): the runs are the maximal same-category stretches of the
\* sampled timeline, which is the source when that has at most 360 entries and
\* 360 entries picked from it otherwise; a stretch of a longer source that
\* lies between picked entries gives no run.
C23_ZoneRunsCoverSampled ==
    pc = "done" =>
        /\ RunsAre(zonesOf(sampledTimeline))
        /\ Len(timelineInput) <= 360 =>
              (sampledTimeline = timelineInput /\ RunsAre(zonesOf(timelineInput)))
        /\ Len(timelineInput) > 360 =>
              /\ Len(sampledTimeline) = 360
              /\ Len(runs) <= Cardinality(stretchStarts(zonesOf(timelineInput)))

\* a source of more than 360 entries, a run of a single entry among its runs
C23_Witness ==
    /\ pc = "done"
    /\ Len(timelineInput) > 360
    /\ Len(runs) >= 3
    /\ \E j \in 1..Len(runs) : runs[j].segStart = runs[j].segEnd

\* a source of more than 360 entries, one stretch of which gave no run
StretchLost ==
    /\ pc = "done"
    /\ Len(timelineInput) > 360
    /\ Len(runs) < Cardinality(stretchStarts(zonesOf(timelineInput)))

-----------------------------------------------------------------------------
(* Timestamps that do not parse *)

Unparsed(p) == timestampMs(p.timestamp) = Null

\* no point after the first has a speed when its timestamp or that of the
\* point before it does not parse
NoSpeedFromUnparsed(pts) ==
    \A k \in 2..Len(pts) :
        (Unparsed(pts[k]) \/ Unparsed(pts[k - 1])) => pts[k].speed_px_s = Null

\* C24: a scanned sample outside the anchor cluster whose timestamp does not
\* parse is retained at its own coordinate and made the anchor, with speed
\* null and no anchor time; and no point retained by the scan or the tail
\* handling has a speed when its timestamp or that of the retained point
\* before it does not parse.
C24_UnparsedTimestamps ==
    /\ [][(Scanning /\ currOutside /\ Unparsed(curr)) =>
            /\ AddedAt(curr.x, curr.y)
            /\ scan'.anchorX = curr.x
            /\ scan'.anchorY = curr.y
            /\ scan'.anchorSinceMs = Null
            /\ lastKept(scan').speed_px_s = Null]_vars
    /\ [](pc = "scan" => NoSpeedFromUnparsed(scan.simplified))
    /\ []((Returned /\ Len(points) > 2) => NoSpeedFromUnparsed(simplifiedTrajectory))

\* a retained point away from the one before it whose timestamp does not
\* parse, followed by a retained point whose timestamp parses
C24_Witness ==
    /\ Returned
    /\ Len(points) > 2
    /\ \E k \in 2..(Len(simplifiedTrajectory) - 1) :
          /\ Unparsed(simplifiedTrajectory[k])
          /\ ~SamePlace(simplifiedTrajectory[k], simplifiedTrajectory[k - 1])
          /\ ~Unparsed(simplifiedTrajectory[k + 1])
          /\ simplifiedTrajectory[k + 1].step_px > 0
          /\ simplifiedTrajectory[k + 1].speed_px_s = Null

-----------------------------------------------------------------------------
(* One returned point per sample *)

\* the scan loop retained the final sample
ScanKeptTail == Len(points) > 2 /\ Len(finalScan.simplified) > Len(scanAtTail.simplified)

\* the final sample was retained by the scan loop and again by the tail handling
TailEmittedTwice == ScanKeptTail /\ TailAdded

\* C25 (as claimed): for an input of 3 or more samples the returned sequence
\* is never longer than the input and no sample, the final one included, is
\* returned twice.
C25_OnePointPerSample ==
    (Returned /\ Len(points) >= 3) =>
        /\ Len(simplifiedTrajectory) <= Len(points)
        /\ ~TailEmittedTwice

\* more points returned than samples received
OutputLonger == Returned /\ Len(points) >= 3 /\ Len(simplifiedTrajectory) > Len(points)

-----------------------------------------------------------------------------
(* Cluster exits *)

\* C26: every scanned sample outside anchor_cluster_radius of the anchor is
\* retained at its own coordinate and becomes the anchor, whatever the time
\* since the last retained point; no reachable scan state has a sample
\* outside the cluster that either exit gate stops.
C26_EveryExitRetained ==
    /\ [][(Scanning /\ currOutside) =>
            /\ AddedAt(curr.x, curr.y)
            /\ scan'.anchorX = curr.x
            /\ scan'.anchorY = curr.y
            /\ scan'.anchorSinceMs = timestampMs(curr.timestamp)]_vars
    /\ [](~ExitGateFires)

\* the sample handled last left the cluster less than min_moving_gap after
\* the point retained before it, and was retained
C26_Witness ==
    /\ pc = "scan"
    /\ i >= 2
    /\ ~nearAnchor(scanBefore(i), points[i], W, H)
    /\ Len(scan.simplified) = Len(scanBefore(i).simplified) + 1
    /\ SamePlace(lastKept(scan), points[i])
    /\ LET dtMs == elapsedMs(lastKept(scanBefore(i)).timestamp, points[i].timestamp)
       IN  dtMs # Null /\ dtMs < minMovingGapMs

-----------------------------------------------------------------------------
(* The scan without the stationary flag *)

\* one scan iteration that keeps no dwell state: a sample inside the cluster
\* is retained at the anchor when min_stationary_gap has passed since the last
\* retained point, a sample outside it is handled as in the scan
flaglessStep(s, p, w, h) ==
    IF ~isFinite(p.x) \/ ~isFinite(p.y) THEN s
    ELSE IF nearAnchor(s, p, w, h)
         THEN LET dtMs == elapsedMs(lastKept(s).timestamp, p.timestamp)
              IN  IF dtMs # Null /\ dtMs >= minStationaryGapMs
                  THEN pushFrom(s, p, s.anchorX, s.anchorY)
                  ELSE s
    ELSE scanExit(s, p, w, h)

RECURSIVE flaglessFrom(_, _, _, _, _)
flaglessFrom(s, pts, k, w, h) ==
    IF k > Len(pts) THEN s
    ELSE flaglessFrom(flaglessStep(s, pts[k], w, h), pts, k + 1, w, h)

\* what the scan has retained and where its anchor is
Output(s) == <<s.simplified, s.anchorX, s.anchorY>>

\* the time since the last retained point is known and at least min_stationary_gap
GapPassed ==
    LET dtMs == elapsedMs(lastKept(scan).timestamp, curr.timestamp)
    IN  dtMs # Null /\ dtMs >= minStationaryGapMs

\* C27: a scanned sample inside the anchor cluster is retained, at the anchor
\* coordinate, exactly when the time since the last retained point is known
\* and at least min_stationary_gap, and then the scan is in stationary mode
\* after the step; the points retained, the anchor and the returned sequence
\* are those of a scan that keeps no stationary flag.
C27_FlagNeverChangesOutput ==
    /\ [][(Scanning /\ currNear) =>
            /\ GapPassed => (AddedAt(scan.anchorX, scan.anchorY) /\ scan'.inStationaryMode)
            /\ ~GapPassed => NothingAdded]_vars
    /\ [](pc = "scan" =>
            Output(scan) =
                Output(flaglessFrom(scanInit(points), SubSeq(points, 1, i), 2, W, H)))
    /\ []((Returned /\ Len(points) > 2) =>
            simplifiedTrajectory =
                tailStep(flaglessFrom(scanInit(points), points, 2, W, H),
                         LastSample, W, H).simplified)

\* the sample handled last was retained at the anchor in the very step that
\* turned stationary mode on
C27_Witness ==
    /\ pc = "scan"
    /\ i >= 2
    /\ nearAnchor(scanBefore(i), points[i], W, H)
    /\ ~scanBefore(i).inStationaryMode
    /\ scan.inStationaryMode
    /\ Len(scan.simplified) = Len(scanBefore(i).simplified) + 1

-----------------------------------------------------------------------------
(* Dwell points and segments *)

\* sample k (from 1) was inside the anchor cluster and the scan retained it
DwellSample(k) ==
    /\ nearAnchor(scanBefore(k), points[k], W, H)
    /\ Len(scanBefore(k + 1).simplified) > Len(scanBefore(k).simplified)

\* where the anchor-snapped points stand in the returned sequence
DwellIndices ==
    IF Len(points) <= 2 THEN {}
    ELSE {Len(scanBefore(k + 1).simplified) : k \in {m \in 2..Len(points) : DwellSample(m)}}

\* C28: every anchor-snapped point the scan emits lies at the place of the
\* retained point before it and has step_px 0 and speed_px_s 0 (not null), and
\* no segment ends on such a point.
C28_DwellPointsGiveNoSegment ==
    /\ Returned =>
          \A d \in DwellIndices :
              /\ SamePlace(simplifiedTrajectory[d], simplifiedTrajectory[d - 1])
              /\ simplifiedTrajectory[d].step_px = 0
              /\ simplifiedTrajectory[d].speed_px_s = 0
    /\ Segmented =>
          \A d \in DwellIndices, k \in 2..Len(sampledTrajectory) :
              sampledTrajectory[k] = simplifiedTrajectory[d] =>
                  \A j \in 1..Len(trajectorySegments) :
                      ~FromPair(trajectorySegments[j], sampledTrajectory, k)

\* a dwell point snapped away from its sample, in a trajectory with a segment
C28_Witness ==
    /\ Segmented
    /\ Len(trajectorySegments) >= 1
    /\ \E k \in 2..Len(points) :
          /\ Len(points) > 2
          /\ DwellSample(k)
          /\ ~SamePlace(points[k], lastKept(scanBefore(k + 1)))
          /\ \E m \in 2..Len(sampledTrajectory) :
                sampledTrajectory[m] = simplifiedTrajectory[Len(scanBefore(k + 1).simplified)]

-----------------------------------------------------------------------------
(* Sign of the dwell *)

\* C29: the dwell of a run whose first and last timestamps parse is never
\* negative, and it is 0 when the last entry of the run is earlier than the
\* first; no entry of dwellMinutesByIndex is negative.
C29_DwellNeverNegative ==
    ZoneLooping =>
        /\ \A j \in 1..Len(runs) :
              RunParses(j) =>
                  /\ runs[j].dwellMin # Null
                  /\ runs[j].dwellMin >= 0
                  /\ RunEndTs(j) < RunStartTs(j) => runs[j].dwellMin = 0
        /\ \A k \in 1..Len(dwellMinutesByIndex) :
              dwellMinutesByIndex[k] = Null \/ dwellMinutesByIndex[k] >= 0

\* a run of several entries that ends earlier than it starts, every entry of
\* which shows dwell 0, in a timeline that also has a run without a dwell
C29_Witness ==
    /\ pc = "done"
    /\ \E j \in 1..Len(runs) :
          /\ RunParses(j)
          /\ RunEndTs(j) < RunStartTs(j)
          /\ \A k \in runs[j].segStart..runs[j].segEnd : dwellMinutesByIndex[k + 1] = 0
    /\ \E j \in 1..Len(runs) : runs[j].dwellMin = Null

-----------------------------------------------------------------------------
(* The anchor and the last retained point *)

\* C30: while the scan runs, the anchor lies at the place of the last
\* retained point, so at the start of every iteration the distance of the
\* sample to the anchor is its distance to the last retained point.
C30_AnchorAtLastKept ==
    pc = "scan" =>
        /\ scan.anchorX = lastKept(scan).x
        /\ scan.anchorY = lastKept(scan).y
        /\ (Scanning /\ finitePoint(curr)) =>
              DistSq(curr.x, curr.y, scan.anchorX, scan.anchorY) = distToLastSq

\* an iteration is about to start after the anchor has moved and a dwell
\* point has been retained at it, later than the anchor was set
C30_Witness ==
    /\ Scanning
    /\ Len(scan.simplified) >= 3
    /\ scan.anchorX # points[1].x
    /\ scan.anchorSinceMs # Null
    /\ timestampMs(lastKept(scan).timestamp) # Null
    /\ lastKept(scan).timestamp > scan.anchorSinceMs


=============================================================================
